---- MODULE Spec2Model ----
(***************************************************************************)
(* Client-side synchronization core of the playlist downloader:            *)
(*   - the App poll effect (visibility-aware scheduler, Diffing Store,     *)
(*     Completion Deduplicator)                 -- specification Spec      *)
(*   - the poll effect with a search and the Active-Playlist Synchronizer  *)
(*                                              -- specification SyncSpec  *)
(*   - the poll effect with the cancel button   -- specification CancelSpec*)
(*   - the Diffing Store as a pure function     -- specification DiffSpec  *)
(*   - the useMobileQueue hook (Sequential Download Queue)                 *)
(*                                              -- specification QueueSpec *)
(*   - the hook over two runs of one track each -- specification RerunSpec *)
(*   - the hook with every server progress   -- specification ProgressSpec *)
(*   - the two download URL composers           -- specification UrlSpec   *)
(*   - the poll effect with its auto-save       -- specification SaveSpec  *)
(*   - the poll effect with request order       -- specification OrderSpec *)
(*   - the poll effect with a second search -- specification SearchAgainSpec *)
(* The subsystems share no state, so each specification moves only its     *)
(* own variables and leaves the others at their initial values.            *)
(***************************************************************************)
EXTENDS Integers, Sequences, FiniteSets, Bags, TLC

VARIABLES
    \* ---- App poll effect (App.tsx) ----
    visible,            \* ~document.hidden
    view,               \* React state `view`
    isFirstLoad,        \* React state `isFirstLoad`
    effView,            \* `view` captured by the running effect instance
    effFirstLoad,       \* `isFirstLoad` captured by the running effect instance
    interval,           \* the running effect instance has its interval armed
    liveFetches,        \* /tasks requests in flight of the running instance
    staleFetches,       \* /tasks requests in flight of torn-down instances
    overtaken,          \* those of liveFetches issued before the fetch applied most recently
                        \* (OrderSpec; Unordered where the order of requests is not followed)
    syncOnNextPoll,     \* ref syncOnNextPoll.current
    isSyncing,          \* React state `isSyncing`
    allTasks,           \* React state `allTasks` (the list items)
    handledCompletions, \* ref handledCompletions.current
    dispatched,         \* per task id: side-effect dispatches so far (saturating)
    silent,             \* history: ids completed in the first processed snapshot
    reported,           \* history: ids a later processed snapshot reported completed
    again,              \* history: dispatched ids reported completed once more
                        \*          after they had left `completed` or the list
    activeTaskId,       \* React state `activeTaskId`
    effActive,          \* `activeTaskId` captured by the running effect instance
    activePlaylist,     \* React state `activePlaylist` (its content)
    playlistGen,        \* flips when a snapshot's playlist object replaces the held one
    isLoading,          \* React state `isLoading`
    loadingMessage,     \* React state `loadingMessage`
    error,              \* React state `error`
    searching,          \* a handleSearch call awaits /prepare
    searches,           \* history: task ids /prepare has handed out
    surfaced,           \* per task id: errors the synchronizer surfaced (saturating)
    projected,          \* per task id: ready projections (saturating)
    cancels,            \* per task id: cancel calls in flight
    resumeFetch,        \* history: where the immediate fetch of the last resume is
    oldInterval,        \* a torn-down instance still has an interval armed
    oldListener,        \* a torn-down instance still hears visibilitychange
    \* ---- Diffing Store as a pure function ----
    dPrev, dNext, dOut,
    \* ---- useMobileQueue hook ----
    queue,              \* React state `queue`
    isProcessing,       \* React state `isProcessing`
    currentIdx,         \* React state `currentIdx` (0-based, as in the code)
    processingRef,      \* ref processingRef.current
    workers,            \* bag of the processItem invocations still running
    nextTimers,         \* scheduled processNext calls (setTimeout 500 / 1000)
    doneTimers,         \* scheduled "All done" callbacks (setTimeout 2000)
    taps,               \* downloadCurrent invocations awaiting their token
    runs,               \* history: addToQueue calls that replaced the queue
    crashed,            \* an updater threw: React has unmounted the tree
    \* ---- download URL composers as pure functions ----
    urlTask,            \* the task id passed to getDownloadUrl
    urlResp,            \* the token the /download_token response carries
    urlApp,             \* what getDownloadUrl of App gives
    urlHook,            \* what getDownloadUrl of useMobileQueue gives
    \* ---- auto-save of the App poll (Auto Download Check) ----
    mobile,             \* isMobile() on this device
    autoAsked,          \* history: download-token requests of the auto-save, per task id
    autoTokens,         \* those requests in flight, per task id
    autoSaves,          \* history: link.click() of the auto-save, per task id
    autoToasts          \* history: 'Auto-save failed' toasts, per task id

pollVars  == <<visible, view, isFirstLoad, effView, effFirstLoad, interval,
               liveFetches, staleFetches, overtaken, syncOnNextPoll, isSyncing, allTasks,
               handledCompletions, dispatched, silent, reported, again,
               activeTaskId, effActive, activePlaylist, playlistGen, isLoading,
               loadingMessage,
               error, searching, searches, surfaced, projected, cancels, resumeFetch,
               oldInterval, oldListener>>
diffVars  == <<dPrev, dNext, dOut>>
queueVars == <<queue, isProcessing, currentIdx, processingRef, workers,
               nextTimers, doneTimers, taps, runs, crashed>>
urlVars   == <<urlTask, urlResp, urlApp, urlHook>>
saveVars  == <<mobile, autoAsked, autoTokens, autoSaves, autoToasts>>
vars      == <<pollVars, diffVars, queueVars, urlVars, saveVars>>

\* ------------------------------------------------------------------ bounds
MaxTasks    == 2    \* task ids a snapshot may hold
MaxInFlight == 2    \* requests in flight at a time, per subsystem
MaxCount    == 2    \* history counters saturate here
MaxDiffLen  == 2    \* longest list handed to the Diffing Store in DiffSpec
MaxItems    == 3    \* longest list handed to addToQueue
MaxPolls    == 2    \* per-item poll ticks followed one by one (see PollTicksIgnored)
MaxWorkers  == 2    \* processItem invocations alive at a time
MaxRuns     == 1    \* addToQueue calls that start a run
MaxReruns   == 2    \* the same, in RerunSpec
MaxRerunItems == 1  \* tracks per addToQueue call in RerunSpec
MaxProgressItems == 1 \* tracks per addToQueue call in ProgressSpec
MaxTimers   == 1    \* scheduled callbacks of one kind pending at a time
MaxSearches == 1    \* handleSearch calls that obtain a task id
MaxSearchAgain == 2 \* the same, in SearchAgainSpec
MaxCancels  == 1    \* cancel calls in flight at a time
MaxTokenLen == 3    \* characters of a download token

None == "none"
Min(a, b) == IF a < b THEN a ELSE b
Bump(n)   == Min(n + 1, MaxCount)
SeqsUpTo(S, n) == UNION {[1..k -> S] : k \in 0..n}

\* ================================================================ Diffing Store
\* A list is a reference tag and its items; a Task is the fields the client reads.
Task(i, s, p, m, pl) ==
    [id |-> i, status |-> s, progress |-> p, message |-> m, playlist |-> pl]
List(r, its) == [ref |-> r, items |-> its]

\* newTasks.some(...) of the updater: a positional mismatch on a compared field.
HasChangesNoMessage(prev, next) ==
    \E i \in 1..Len(next) :
        \/ prev[i].id # next[i].id
        \/ prev[i].status # next[i].status
        \/ prev[i].progress # next[i].progress
HasChanges(prev, next) ==
    \E i \in 1..Len(next) :
        \/ prev[i].id # next[i].id
        \/ prev[i].status # next[i].status
        \/ prev[i].progress # next[i].progress
        \/ prev[i].message # next[i].message

DiffStoreById(prev, next) ==
    IF Len(prev.items) # Len(next.items) THEN next
    ELSE IF \E i \in 1..Len(next.items) : prev.items[i].id # next.items[i].id THEN next
    ELSE prev
\* The setAllTasks updater: the list (reference included) React keeps.
DiffStore(prev, next) ==
    IF Len(prev.items) # Len(next.items) THEN next
    ELSE IF HasChanges(prev.items, next.items) THEN next
    ELSE prev

\* DiffSpec inputs: a base task and the tasks differing from it in one field.
BaseTask == Task(1, "downloading", 0, "m0", "pl0")
DiffTasks ==
    { BaseTask,
      [BaseTask EXCEPT !.id = 2],
      [BaseTask EXCEPT !.status = "completed"],
      [BaseTask EXCEPT !.progress = 50],
      [BaseTask EXCEPT !.message = "m1"],
      [BaseTask EXCEPT !.playlist = "pl1"] }
DiffLists == SeqsUpTo(DiffTasks, MaxDiffLen)

\* ================================================================ App poll effect
TaskIds      == 1..MaxTasks
PollStatuses == {"downloading", "completed"}
PollTask(i, s) == Task(i, s, IF s = "completed" THEN 100 ELSE 0, "", None)
\* The snapshots /tasks may answer with: tasks with distinct ids, in any order.
PollSnapshots ==
    { s \in SeqsUpTo({PollTask(i, st) : i \in TaskIds, st \in PollStatuses}, MaxTasks) :
        \A i, j \in 1..Len(s) : i # j => s[i].id # s[j].id }

\* SyncSpec snapshots: the life of a task handed out by /prepare (handleSearch),
\* alone in the list.
SearchIds == 1..Min(MaxSearches, MaxTasks)
SyncTasks ==
    UNION { { Task(i, "preparing", 0, "", None),
              Task(i, "ready", 0, "", None),
              Task(i, "ready", 0, "", "pl0"),
              Task(i, "ready", 0, "", "pl1"),
              Task(i, "downloading", 0, "", "pl0"),
              Task(i, "completed", 100, "", "pl0"),
              Task(i, "cancelled", 0, "", "pl0"),
              Task(i, "error", 0, "", None),
              Task(i, "error", 0, "m1", None) } : i \in SearchIds }
SyncSnapshots == {<<>>} \cup {<<t>> : t \in SyncTasks}
\* SearchAgainSpec snapshots: one task of the first or of a later search.
SearchAgainIds == 1..Min(MaxSearchAgain, MaxTasks)
SearchAgainSnapshots ==
    {<<>>} \cup UNION { { <<Task(i, "ready", 0, "", "pl0")>>,
                          <<Task(i, "downloading", 0, "", "pl0")>>,
                          <<Task(i, "error", 0, "", None)>> } : i \in SearchAgainIds }

CompletedIds(snap) == {snap[i].id : i \in {k \in 1..Len(snap) : snap[k].status = "completed"}}

\* isFirstLoad branch: every completed task is admitted silently.
AdmitNothing(snap, handled) == handled
FirstLoadAdmit(snap, handled) == handled \cup CompletedIds(snap)

\* Auto Download Check: the tasks whose side effects this snapshot dispatches.
AllCompleted(snap, handled) == CompletedIds(snap)
NewlyCompleted(snap, handled) == CompletedIds(snap) \ handled

\* newTasks.find(t => t.id === activeTaskId): 0 when there is none.
\* activeTaskId null: no task has id 0.
NoTask == 0
FindActive(snap, id) ==
    IF \E k \in 1..Len(snap) : snap[k].id = id
    THEN CHOOSE k \in 1..Len(snap) : snap[k].id = id /\ \A j \in 1..(k - 1) : snap[j].id # id
    ELSE 0
\* active.message || (status === 'pending' ? 'Queued...' : 'Fetching metadata...')
LoadingText(t) ==
    IF t.message # "" THEN t.message
    ELSE IF t.status = "pending" THEN "Queued..." ELSE "Fetching metadata..."
\* active.message || 'Task failed'
ErrorText(t) == IF t.message # "" THEN t.message ELSE "Task failed"

\* poll() up to its await: the syncing flag is raised when a resume asked for it.
SyncAtPollStart == isSyncing \/ syncOnNextPoll

FinallyResetsRefOnly(syncing) ==
    /\ syncOnNextPoll' = FALSE
    /\ isSyncing' = syncing
\* The finally block of poll(): runs for every resolved fetch, torn down or not.
Finally(syncing) ==
    /\ syncOnNextPoll' = FALSE
    /\ isSyncing' = IF syncOnNextPoll THEN FALSE ELSE syncing

InFlight == liveFetches + staleFetches

\* stopPolling: the interval of the instance is cleared.
KeepPolling(armed) == armed
StopPolling(armed) == FALSE
\* stopPolling() in the effect cleanup (line 343): the timer left behind.
CleanupSkipsInterval(armed) == armed
CleanupInterval(armed) == StopPolling(armed)
\* removeEventListener of the cleanup: the instance no longer hears
\* visibilitychange.
StaysAttached == TRUE
ListenerAfterCleanup == FALSE
\* startPolling with no interval armed calls poll() once: one more request.
NoImmediatePoll(n) == n
ImmediatePoll(n) == n + 1

\* Where the immediate fetch of the latest resume is once one of the `n`
\* requests in flight of the kind `at` has resolved.
ResumeAfterResolve(at, n) ==
    IF resumeFetch # at THEN {resumeFetch}
    ELSE IF n = 1 THEN {"none"} ELSE {"none", at}

\* The value of overtaken where the order of the requests is not followed.
Unordered == 0 - 1

PollInitWith(v, m, o) ==
    /\ mobile = m
    /\ autoAsked = [i \in TaskIds |-> 0]
    /\ autoTokens = [i \in TaskIds |-> 0]
    /\ autoSaves = [i \in TaskIds |-> 0]
    /\ autoToasts = [i \in TaskIds |-> 0]
    /\ visible = v
    /\ view = "home"
    /\ isFirstLoad = TRUE
    /\ effView = "home"
    /\ effFirstLoad = TRUE
    /\ interval = v
    /\ liveFetches = IF v THEN 1 ELSE 0
    /\ staleFetches = 0
    /\ overtaken = o
    /\ syncOnNextPoll = FALSE
    /\ isSyncing = FALSE
    /\ allTasks = <<>>
    /\ handledCompletions = {}
    /\ dispatched = [i \in TaskIds |-> 0]
    /\ silent = {}
    /\ reported = {}
    /\ again = {}
    /\ activeTaskId = NoTask
    /\ effActive = NoTask
    /\ activePlaylist = None
    /\ playlistGen = 0
    /\ isLoading = FALSE
    /\ loadingMessage = None
    /\ error = None
    /\ searching = FALSE
    /\ searches = 0
    /\ surfaced = [i \in TaskIds |-> 0]
    /\ projected = [i \in TaskIds |-> 0]
    /\ cancels = [i \in TaskIds |-> 0]
    /\ resumeFetch = "none"
    /\ oldInterval = FALSE
    /\ oldListener = FALSE
\* With the requests in flight counted only.
PollInitOn(v, m) == PollInitWith(v, m, Unordered)
\* On a desktop browser.
PollInitFor(v) == PollInitOn(v, FALSE)

\* The effect mounts with the document visible or hidden (line 340).
PollInit == \E v \in BOOLEAN : PollInitFor(v)

\* Variables the poll scheduler itself does not own.
dedupVars == <<handledCompletions, dispatched, silent, reported, again>>
syncVars  == <<activeTaskId, activePlaylist, playlistGen, isLoading, loadingMessage, error, surfaced,
               projected>>
userVars  == <<searching, searches, cancels>>
closureVars == <<effView, effFirstLoad, effActive>>

\* setInterval(poll, 3000) of an instance fires: poll() runs up to its await.
\* inst is "live" for the running effect instance, "old" for a torn-down one.
Tick(inst) ==
    /\ UNCHANGED overtaken
    /\ InFlight < MaxInFlight
    /\ IF inst = "live"
       THEN /\ interval
            /\ liveFetches' = liveFetches + 1
            /\ UNCHANGED staleFetches
       ELSE /\ oldInterval
            /\ staleFetches' = staleFetches + 1
            /\ UNCHANGED liveFetches
    /\ isSyncing' = SyncAtPollStart
    /\ UNCHANGED <<visible, view, isFirstLoad, closureVars, interval, syncOnNextPoll,
                   allTasks, dedupVars, syncVars, userVars, resumeFetch, oldInterval,
                   oldListener>>

\* onVisibilityChange of every attached listener: hidden stops the interval;
\* visible marks the next poll as a sync and starts polling (an immediate poll,
\* then the interval).
VisibilityChange ==
    /\ UNCHANGED overtaken
    /\ visible' = ~visible
    /\ IF visible
       THEN /\ interval' = StopPolling(interval)
            /\ oldInterval' = IF oldListener THEN StopPolling(oldInterval) ELSE oldInterval
            /\ UNCHANGED <<liveFetches, staleFetches, syncOnNextPoll, isSyncing, resumeFetch>>
       ELSE /\ syncOnNextPoll' = TRUE
            /\ IF interval
               THEN UNCHANGED <<interval, liveFetches, isSyncing, resumeFetch>>
               ELSE /\ InFlight < MaxInFlight
                    /\ liveFetches' = ImmediatePoll(liveFetches)
                    /\ isSyncing' = TRUE
                    /\ interval' = TRUE
                    /\ resumeFetch' = "live"
            /\ IF oldListener /\ ~oldInterval
               THEN /\ staleFetches' = ImmediatePoll(staleFetches)
                    /\ oldInterval' = TRUE
               ELSE UNCHANGED <<staleFetches, oldInterval>>
    /\ UNCHANGED <<view, isFirstLoad, closureVars, allTasks, dedupVars, syncVars, userVars,
                   oldListener>>

\* JSON.stringify of a held or reported playlist (its content stands for the
\* whole object): null for none.
Stringify(pl) == IF pl = None THEN "null" ELSE "{\"title\":\"" \o pl \o "\"}"
\* The setActivePlaylist updater of lines 290-293: the object kept and whether
\* it is the snapshot's.
Reproject(curr, pl) ==
    IF Stringify(curr) # Stringify(pl) THEN [held |-> pl, replaced |-> TRUE]
    ELSE [held |-> curr, replaced |-> FALSE]

\* Sync Active Playlist (lines 276-303), with the activeTaskId and view the
\* effect instance captured.
SyncActive(snap) ==
    LET k == IF effActive = NoTask THEN 0 ELSE FindActive(snap, effActive) IN
    IF k = 0 THEN UNCHANGED <<view, syncVars>>
    ELSE LET t == snap[k]
             loading == t.status \in {"pending", "preparing"}
             project == t.status = "ready" /\ effView \notin {"preview", "downloads"}
                        /\ t.playlist # None
             failed  == t.status = "error"
         IN
         /\ isLoading' = IF loading THEN TRUE
                         ELSE IF project \/ failed THEN FALSE ELSE isLoading
         /\ loadingMessage' = IF loading THEN LoadingText(t)
                              ELSE IF project \/ failed THEN None ELSE loadingMessage
         /\ activePlaylist' = IF project THEN t.playlist
                              ELSE IF t.playlist # None /\ effView = "preview"
                                   THEN Reproject(activePlaylist, t.playlist).held
                                   ELSE activePlaylist
         /\ playlistGen' = IF project THEN 1 - playlistGen
                           ELSE IF t.playlist # None /\ effView = "preview"
                                     /\ Reproject(activePlaylist, t.playlist).replaced
                                THEN 1 - playlistGen
                                ELSE playlistGen
         /\ view' = IF project THEN "preview" ELSE view
         /\ projected' = IF project THEN [projected EXCEPT ![t.id] = Bump(@)] ELSE projected
         /\ error' = IF failed THEN ErrorText(t) ELSE error
         /\ surfaced' = IF failed THEN [surfaced EXCEPT ![t.id] = Bump(@)] ELSE surfaced
         /\ activeTaskId' = IF failed THEN NoTask ELSE activeTaskId

\* Responses are handled as they arrive (lines 213-228), whatever the order of
\* the requests.  Of n requests in flight, `old` of them issued before the one
\* applied most recently, one resolves and is applied: the overtaken requests
\* left are those issued before it.
AfterApplied(n, old) ==
    IF old = Unordered THEN {Unordered}
    ELSE (0..(old - 1)) \cup {old + j : j \in 0..(n - old - 1)}
\* One of them fails: nothing is applied.
AfterFailed(n, old) ==
    IF old = Unordered THEN {Unordered}
    ELSE (IF old > 0 THEN {old - 1} ELSE {}) \cup (IF n > old THEN {old} ELSE {})
\* The effect restarts: the requests in flight are no longer applied.
AfterRestart(old) == IF old = Unordered THEN Unordered ELSE 0

\* if (!mobile) getDownloadUrl(t.id)... (lines 257-271): whether the auto-save
\* is started on this device.
AutoSaveAlways(m) == TRUE
AutoSaveOn(m) == ~m

\* A /tasks request of the running instance resolves with a snapshot.
FetchOk(snap) ==
    /\ liveFetches > 0
    /\ liveFetches' = liveFetches - 1
    /\ overtaken' \in AfterApplied(liveFetches, overtaken)
    /\ resumeFetch' \in ResumeAfterResolve("live", liveFetches)
    /\ allTasks' = DiffStore(List("prev", allTasks), List("next", snap)).items
    /\ IF effFirstLoad
       THEN /\ handledCompletions' = FirstLoadAdmit(snap, handledCompletions)
            /\ isFirstLoad' = FALSE
            /\ dispatched' = dispatched
            /\ silent' = IF isFirstLoad THEN CompletedIds(snap) ELSE silent
            /\ reported' = IF isFirstLoad THEN reported
                           ELSE reported \cup (CompletedIds(snap) \ silent)
            /\ again' = again
            /\ UNCHANGED <<view, syncVars, saveVars>>
       ELSE LET fresh == NewlyCompleted(snap, handledCompletions) IN
            /\ handledCompletions' = handledCompletions \cup fresh
            /\ dispatched' = [i \in TaskIds |->
                                IF i \in fresh THEN Bump(dispatched[i]) ELSE dispatched[i]]
            /\ reported' = reported \cup (CompletedIds(snap) \ silent)
            /\ again' = again \cup {i \in CompletedIds(snap) \ CompletedIds(allTasks) :
                                        dispatched[i] >= 1}
            /\ autoAsked' = [i \in TaskIds |->
                                IF i \in fresh /\ AutoSaveOn(mobile)
                                THEN Bump(autoAsked[i]) ELSE autoAsked[i]]
            /\ autoTokens' = [i \in TaskIds |->
                                IF i \in fresh /\ AutoSaveOn(mobile)
                                THEN Bump(autoTokens[i]) ELSE autoTokens[i]]
            /\ SyncActive(snap)
            /\ UNCHANGED <<isFirstLoad, silent, mobile, autoSaves, autoToasts>>
    /\ Finally(isSyncing)
    /\ UNCHANGED <<visible, closureVars, interval, staleFetches, userVars, oldInterval,
                   oldListener>>

\* getDownloadUrl of the auto-save resolves: the link is created and clicked
\* (lines 259-266).
AutoSaveOk(id) ==
    /\ autoTokens[id] > 0
    /\ autoTokens' = [autoTokens EXCEPT ![id] = @ - 1]
    /\ autoSaves' = [autoSaves EXCEPT ![id] = Bump(@)]
    /\ UNCHANGED <<pollVars, mobile, autoAsked, autoToasts>>

\* getDownloadUrl of the auto-save rejects: console.error and the toast
\* (lines 267-270).
AutoSaveFail(id) ==
    /\ autoTokens[id] > 0
    /\ autoTokens' = [autoTokens EXCEPT ![id] = @ - 1]
    /\ autoToasts' = [autoToasts EXCEPT ![id] = Bump(@)]
    /\ UNCHANGED <<pollVars, mobile, autoAsked, autoSaves>>

\* catch (_err) { /* ignore poll errors */ }: the error state after the catch.
SurfacePollError(e) == "Failed to fetch tasks"
IgnorePollError(e) == e

\* A /tasks request of the running instance fails.
FetchFail ==
    /\ liveFetches > 0
    /\ liveFetches' = liveFetches - 1
    /\ overtaken' \in AfterFailed(liveFetches, overtaken)
    /\ resumeFetch' \in ResumeAfterResolve("live", liveFetches)
    /\ error' = IgnorePollError(error)
    /\ Finally(isSyncing)
    /\ UNCHANGED <<visible, view, isFirstLoad, closureVars, interval, staleFetches,
                   allTasks, dedupVars, activeTaskId, activePlaylist, playlistGen, isLoading,
                   loadingMessage, surfaced, projected, userVars, oldInterval,
                   oldListener>>

\* A request of a torn-down instance resolves (either way): `mounted` is false,
\* so nothing but the finally block runs.
StaleResolve ==
    /\ UNCHANGED overtaken
    /\ staleFetches > 0
    /\ staleFetches' = staleFetches - 1
    /\ resumeFetch' \in ResumeAfterResolve("stale", staleFetches)
    /\ Finally(isSyncing)
    /\ UNCHANGED <<visible, view, isFirstLoad, closureVars, interval, liveFetches,
                   allTasks, dedupVars, syncVars, userVars, oldInterval, oldListener>>

\* The user navigates (setView): the sidebar, or Back on the preview.
Views == {"home", "downloads"}
Navigate ==
    /\ UNCHANGED overtaken
    /\ \E v \in Views \ {view} : view' = v
    /\ UNCHANGED <<visible, isFirstLoad, closureVars, interval, liveFetches, staleFetches,
                   syncOnNextPoll, isSyncing, allTasks, dedupVars, syncVars, userVars,
                   resumeFetch, oldInterval, oldListener>>

\* React commits a render whose effect dependencies changed: the cleanup of the
\* old instance runs (mounted = false, stopPolling, removeEventListener), then
\* the effect body runs again with the new values (startPolling when visible).
Commit ==
    /\ <<activeTaskId, view, isFirstLoad>> # <<effActive, effView, effFirstLoad>>
    /\ effActive' = activeTaskId
    /\ effView' = view
    /\ effFirstLoad' = isFirstLoad
    /\ staleFetches' = staleFetches + liveFetches
    /\ overtaken' = AfterRestart(overtaken)
    /\ resumeFetch' = IF resumeFetch = "live" THEN "stale" ELSE resumeFetch
    /\ oldInterval' = (oldInterval \/ CleanupInterval(interval))
    /\ oldListener' = (oldListener \/ ListenerAfterCleanup)
    /\ IF visible
       THEN /\ InFlight < MaxInFlight
            /\ liveFetches' = ImmediatePoll(0)
            /\ isSyncing' = SyncAtPollStart
            /\ interval' = TRUE
       ELSE /\ liveFetches' = 0
            /\ interval' = FALSE
            /\ UNCHANGED isSyncing
    /\ UNCHANGED <<visible, view, isFirstLoad, syncOnNextPoll, allTasks, dedupVars,
                   syncVars, userVars>>

\* handleSearch up to its await (lines 84-97); Hero submits only while not
\* loading.
SearchStartWithin(maxSearches) ==
    /\ UNCHANGED overtaken
    /\ ~isLoading
    /\ ~searching
    /\ searches < Min(maxSearches, MaxTasks)
    /\ searching' = TRUE
    /\ error' = None
    /\ isLoading' = TRUE
    /\ loadingMessage' = None
    /\ activePlaylist' = None
    /\ UNCHANGED <<visible, view, isFirstLoad, closureVars, interval, liveFetches,
                   staleFetches, syncOnNextPoll, isSyncing, allTasks, dedupVars,
                   activeTaskId, playlistGen, surfaced, projected, searches, cancels,
                   resumeFetch, oldInterval, oldListener>>
SearchStart == SearchStartWithin(MaxSearches)

\* /prepare resolves with a new task id (lines 97-99).
SearchOk ==
    /\ UNCHANGED overtaken
    /\ searching
    /\ searching' = FALSE
    /\ searches' = searches + 1
    /\ activeTaskId' = searches + 1
    /\ UNCHANGED <<visible, view, isFirstLoad, closureVars, interval, liveFetches,
                   staleFetches, syncOnNextPoll, isSyncing, allTasks, dedupVars,
                   activePlaylist, playlistGen, isLoading, loadingMessage, error, surfaced,
                   projected,
                   cancels, resumeFetch, oldInterval, oldListener>>

\* /prepare fails (lines 100-106).
SearchFail ==
    /\ UNCHANGED overtaken
    /\ searching
    /\ searching' = FALSE
    /\ error' = "Failed to fetch playlist. Please check the URL."
    /\ isLoading' = FALSE
    /\ loadingMessage' = None
    /\ UNCHANGED <<visible, view, isFirstLoad, closureVars, interval, liveFetches,
                   staleFetches, syncOnNextPoll, isSyncing, allTasks, dedupVars,
                   activeTaskId, activePlaylist, playlistGen, surfaced, projected, searches,
                   cancels,
                   resumeFetch, oldInterval, oldListener>>

\* prev.map(...) of handleCancelTask: the entries of task id get the fields f.
WithFields(tasks, id, f) ==
    [k \in 1..Len(tasks) |->
        IF tasks[k].id = id THEN [x \in DOMAIN tasks[k] |->
                                     IF x \in DOMAIN f THEN f[x] ELSE tasks[k][x]]
        ELSE tasks[k]]
\* The source text ends in an ellipsis character, written here as three dots.
OptimisticCancel == [status |-> "cancelled", message |-> "Cancelling..."]
CompensateStatus == [status |-> "downloading", message |-> "Cancel failed"]
CancelCompensation == [message |-> "Cancel failed"]
CancelsInFlight == LET f[n \in 0..MaxTasks] == IF n = 0 THEN 0 ELSE f[n - 1] + cancels[n]
                   IN f[MaxTasks]

\* handleCancelTask up to its await (lines 189-194), from the Downloads view.
Cancel(id) ==
    /\ UNCHANGED overtaken
    /\ view = "downloads"
    /\ \E k \in 1..Len(allTasks) : allTasks[k].id = id
    /\ CancelsInFlight < MaxCancels
    /\ allTasks' = WithFields(allTasks, id, OptimisticCancel)
    /\ cancels' = [cancels EXCEPT ![id] = @ + 1]
    /\ UNCHANGED <<visible, view, isFirstLoad, closureVars, interval, liveFetches,
                   staleFetches, syncOnNextPoll, isSyncing, dedupVars, syncVars, searching,
                   searches, resumeFetch, oldInterval, oldListener>>

\* The cancel call resolves: nothing more happens.
CancelOk(id) ==
    /\ UNCHANGED overtaken
    /\ cancels[id] > 0
    /\ cancels' = [cancels EXCEPT ![id] = @ - 1]
    /\ UNCHANGED <<visible, view, isFirstLoad, closureVars, interval, liveFetches,
                   staleFetches, syncOnNextPoll, isSyncing, allTasks, dedupVars, syncVars,
                   searching, searches, resumeFetch, oldInterval, oldListener>>

\* The cancel call rejects (lines 195-200).
CancelFail(id) ==
    /\ UNCHANGED overtaken
    /\ cancels[id] > 0
    /\ cancels' = [cancels EXCEPT ![id] = @ - 1]
    /\ allTasks' = WithFields(allTasks, id, CancelCompensation)
    /\ UNCHANGED <<visible, view, isFirstLoad, closureVars, interval, liveFetches,
                   staleFetches, syncOnNextPoll, isSyncing, dedupVars, syncVars, searching,
                   searches, resumeFetch, oldInterval, oldListener>>

\* ================================================================ DiffSpec
DiffInitFor(p, n) ==
    /\ dPrev = List("prev", p)
    /\ dNext = List("next", n)
    /\ dOut = List(None, <<>>)
DiffInit == \E p, n \in DiffLists : DiffInitFor(p, n)

\* poll applies the updater to the pair.
DiffApply ==
    /\ dOut.ref = None
    /\ dOut' = DiffStore(dPrev, dNext)
    /\ UNCHANGED <<dPrev, dNext>>

\* ================================================================ useMobileQueue
\* Item indices are 0-based as in the code; the sequence `queue` is 1-based.
Idxs   == 0..(MaxItems - 1)
AttemptCap == 300
ServerProgress == {100}

\* A QueueItem.  url: originalUrl is present; hasUrl: downloadUrl is stored.
\* id is the temporary client id ("temp") or a server task id ("task").  Two
\* more shapes exist only after the unguarded id write of processItem hit an
\* index beyond the list: an array hole ("hole") and an object holding nothing
\* but an id ("undefined").
\* Progress of a queue item is kept in fifths of a percent, the unit in which
\* 50 + p / 2.5 is exact for every whole p.
Pct(n) == 5 * n
Item(st, pr, i, u, h) == [status |-> st, progress |-> pr, id |-> i, url |-> u, hasUrl |-> h]
NewItem(u) == Item("pending", 0, "temp", u, FALSE)
Hole == Item("hole", 0, "temp", FALSE, FALSE)
IdOnly(i) == Item("undefined", 0, i, FALSE, FALSE)
Exists(q, idx) == idx < Len(q) /\ q[idx + 1].status # "hole"

\* One processItem invocation, for the item at idx.  pc: scheduled
\* (setTimeout 0), delay (500 ms), prepare and start (POST in flight), poll
\* (interval set up).  polls counts its /tasks requests in flight, tokens its
\* completed-branch handlers awaiting getDownloadUrl.  term is the terminal
\* status the server gave its task, as far as an answer has shown it: a task
\* is never both completed and failed, but answers may overtake each other, so
\* one still reporting the task active may arrive after one reporting it
\* finished.  `workers` is the bag of the invocations that have code left to run.
Spawn(idx, u) == [idx |-> idx, pc |-> "scheduled", url |-> u, attempts |-> 0,
                  timer |-> FALSE, polls |-> 0, term |-> None, tokens |-> 0]
Finished(w) == w.pc = "poll" /\ ~w.timer /\ w.polls = 0 /\ w.tokens = 0
Take(b, w) == b (-) SetToBag({w})
Put(b, w) == b (+) SetToBag({w})
\* Invocation w goes on as w2; a closure with nothing left to run is garbage.
Step(b, w, w2) == IF Finished(w2) THEN Take(b, w) ELSE Put(Take(b, w), w2)

\* updateStatus (lines 190-197).
UpdateStatus(q, idx, st, pr) ==
    IF ~Exists(q, idx) THEN q
    ELSE [q EXCEPT ![idx + 1].status = st, ![idx + 1].progress = pr]

\* The id write of processItem (lines 114-118): no existence check, so beyond
\* the end of the list it grows the array, leaving holes.
SetId(q, idx, i) ==
    IF idx < Len(q)
    THEN [q EXCEPT ![idx + 1] = IF q[idx + 1].status = "hole" THEN IdOnly(i)
                                 ELSE [q[idx + 1] EXCEPT !.id = i]]
    ELSE [k \in 1..(idx + 1) |-> IF k <= Len(q) THEN q[k]
                                 ELSE IF k = idx + 1 THEN IdOnly(i) ELSE Hole]

\* The setQueue of the completed branch (lines 158-168).
SetReadyOrError(q, idx, ok) ==
    IF ~Exists(q, idx) THEN q
    ELSE IF ok THEN [q EXCEPT ![idx + 1].status = "ready", ![idx + 1].progress = Pct(100),
                              ![idx + 1].hasUrl = TRUE]
         ELSE [q EXCEPT ![idx + 1].status = "error", ![idx + 1].progress = 0]
SetReady(q, idx, ok) ==
    IF ~Exists(q, idx) THEN q
    ELSE [q EXCEPT ![idx + 1].status = "ready", ![idx + 1].progress = Pct(100),
                   ![idx + 1].hasUrl = ok]

\* The setQueue of downloadCurrent (lines 220-225).
SetCompleted(q, idx) ==
    IF ~Exists(q, idx) THEN q
    ELSE [q EXCEPT ![idx + 1].status = "completed", ![idx + 1].progress = Pct(100)]

\* prev.findIndex(item => item.status === 'pending'), 1-based, 0 for -1.
PendingAt(q) == {k \in 1..Len(q) : q[k].status = "pending"}
FirstPending(q) ==
    IF PendingAt(q) = {} THEN 0
    ELSE CHOOSE k \in PendingAt(q) : \A j \in PendingAt(q) : k <= j
\* findIndex visits holes: reading `.status` of undefined throws.
Throws(q) ==
    \E k \in 1..Len(q) : q[k].status = "hole" /\ \A j \in 1..(k - 1) : q[j].status # "pending"

Requests(w) == (IF w.pc \in {"prepare", "start"} THEN 1 ELSE 0) + w.polls + w.tokens
RECURSIVE RequestsOf(_, _)
RequestsOf(S, b) ==
    IF S = {} THEN 0
    ELSE LET w == CHOOSE x \in S : TRUE
         IN b[w] * Requests(w) + RequestsOf(S \ {w}, b)
RECURSIVE TapsUpTo(_)
TapsUpTo(n) == IF n = 0 THEN 0 ELSE taps[n - 1] + TapsUpTo(n - 1)
\* Network requests in flight: those of the invocations and the taps' tokens.
InFlightRequests == RequestsOf(BagToSet(workers), workers) + TapsUpTo(MaxItems)
\* Room for one more request.
Room == InFlightRequests < MaxInFlight

\* processNext (lines 72-93), run on the queue q and the invocations b its
\* caller leaves behind.
ProcessNext(q, b) ==
    IF Throws(q)
    THEN /\ crashed' = TRUE
         /\ workers' = b
         /\ UNCHANGED <<currentIdx, doneTimers>>
    ELSE IF FirstPending(q) = 0
    THEN /\ doneTimers < MaxTimers
         /\ doneTimers' = doneTimers + 1
         /\ workers' = b
         /\ UNCHANGED <<currentIdx, crashed>>
    ELSE LET idx == FirstPending(q) - 1 IN
         /\ BagCardinality(b) < MaxWorkers
         /\ workers' = Put(b, Spawn(idx, q[idx + 1].url))
         /\ currentIdx' = idx
         /\ UNCHANGED <<doneTimers, crashed>>

QueueInit ==
    /\ queue = <<>>
    /\ isProcessing = FALSE
    /\ currentIdx = 0
    /\ processingRef = FALSE
    /\ workers = EmptyBag
    /\ nextTimers = 0
    /\ doneTimers = 0
    /\ taps = [i \in Idxs |-> 0]
    /\ runs = 0
    /\ crashed = FALSE

AddToQueueUnguarded(items, maxRuns) ==
    /\ ~crashed
    /\ runs < maxRuns
    /\ runs' = runs + 1
    /\ queue' = [k \in 1..Len(items) |-> NewItem(items[k])]
    /\ currentIdx' = 0
    /\ isProcessing' = TRUE
    /\ UNCHANGED <<processingRef, workers, nextTimers, doneTimers, taps, crashed>>
\* addToQueue (lines 50-64); the callers pass at least one track.
AddToQueueWithin(items, maxRuns) ==
    /\ ~crashed
    /\ ~processingRef
    /\ runs < maxRuns
    /\ runs' = runs + 1
    /\ queue' = [k \in 1..Len(items) |-> NewItem(items[k])]
    /\ currentIdx' = 0
    /\ isProcessing' = TRUE
    /\ UNCHANGED <<processingRef, workers, nextTimers, doneTimers, taps, crashed>>
AddToQueue(items) == AddToQueueWithin(items, MaxRuns)

\* The effect of lines 42-48 after the render that applied addToQueue:
\* startQueue sets the guard flag and calls processNext.
StartQueue ==
    /\ ~crashed
    /\ isProcessing
    /\ ~processingRef
    /\ Len(queue) # 0
    /\ processingRef' = TRUE
    /\ ProcessNext(queue, workers)
    /\ UNCHANGED <<queue, isProcessing, nextTimers, taps, runs>>

\* A scheduled processNext (setTimeout 500 / 1000) fires.
NextTimer ==
    /\ ~crashed
    /\ nextTimers > 0
    /\ nextTimers' = nextTimers - 1
    /\ ProcessNext(queue, workers)
    /\ UNCHANGED <<queue, isProcessing, processingRef, taps, runs>>

\* The "All done" callback (lines 78-83) fires.
DoneTimer ==
    /\ ~crashed
    /\ doneTimers > 0
    /\ doneTimers' = doneTimers - 1
    /\ isProcessing' = FALSE
    /\ processingRef' = FALSE
    /\ queue' = <<>>
    /\ UNCHANGED <<currentIdx, workers, nextTimers, taps, runs, crashed>>

CatchQuiet(w) ==
    /\ queue' = UpdateStatus(queue, w.idx, "error", Pct(0))
    /\ workers' = Take(workers, w)
    /\ UNCHANGED <<isProcessing, currentIdx, processingRef, nextTimers, doneTimers, taps,
                   runs, crashed>>
\* The catch block of processItem (lines 183-187); the invocation is over.
Catch(w) ==
    /\ queue' = UpdateStatus(queue, w.idx, "error", Pct(0))
    /\ nextTimers < MaxTimers
    /\ nextTimers' = nextTimers + 1
    /\ workers' = Take(workers, w)
    /\ UNCHANGED <<isProcessing, currentIdx, processingRef, doneTimers, taps, runs, crashed>>

\* setTimeout(() => processItem(idx, prev[idx]), 0) fires: line 98, then the
\* 500 ms delay.
ItemBegin(w) ==
    /\ ~crashed
    /\ w.pc = "scheduled"
    /\ queue' = UpdateStatus(queue, w.idx, "preparing", Pct(10))
    /\ workers' = Step(workers, w, [w EXCEPT !.pc = "delay"])
    /\ UNCHANGED <<isProcessing, currentIdx, processingRef, nextTimers, doneTimers,
                   taps, runs, crashed>>

\* if (!item.originalUrl) (line 104), on the item processNext handed over.
UrlMissing(w) == ~w.url

\* The delay is over: a missing URL throws (line 104), else /prepare is posted.
ItemCheckUrl(w) ==
    /\ ~crashed
    /\ w.pc = "delay"
    /\ IF UrlMissing(w)
       THEN Catch(w)
       ELSE /\ Room
            /\ workers' = Step(workers, w, [w EXCEPT !.pc = "prepare"])
            /\ UNCHANGED <<queue, isProcessing, currentIdx, processingRef, nextTimers,
                           doneTimers, taps, runs, crashed>>

\* /prepare resolves with a task id: the id is written, then /start is posted.
PrepareOk(w) ==
    /\ ~crashed
    /\ w.pc = "prepare"
    /\ queue' = UpdateStatus(SetId(queue, w.idx, "task"), w.idx, "preparing", Pct(30))
    /\ workers' = Step(workers, w, [w EXCEPT !.pc = "start"])
    /\ UNCHANGED <<isProcessing, currentIdx, processingRef, nextTimers, doneTimers,
                   taps, runs, crashed>>

PrepareFailGoesOn(w) ==
    /\ ~crashed
    /\ w.pc = "prepare"
    /\ workers' = Step(workers, w, [w EXCEPT !.pc = "start"])
    /\ UNCHANGED <<queue, isProcessing, currentIdx, processingRef, nextTimers, doneTimers,
                   taps, runs, crashed>>
\* /prepare fails: the catch block.
PrepareFail(w) ==
    /\ ~crashed
    /\ w.pc = "prepare"
    /\ Catch(w)

\* /start resolves: line 125, attempts = 0, the 1 s interval is armed.
StartOk(w) ==
    /\ ~crashed
    /\ w.pc = "start"
    /\ queue' = UpdateStatus(queue, w.idx, "downloading", Pct(50))
    /\ workers' = Step(workers, w, [w EXCEPT !.pc = "poll", !.attempts = 0, !.timer = TRUE])
    /\ UNCHANGED <<isProcessing, currentIdx, processingRef, nextTimers, doneTimers,
                   taps, runs, crashed>>

StartFail(w) ==
    /\ ~crashed
    /\ w.pc = "start"
    /\ Catch(w)

\* clearInterval(poll) (lines 131, 145, 170).
KeepInterval(w) == w
ClearInterval(w) == [w EXCEPT !.timer = FALSE]

\* attempts > 300 (line 130).
OverCapOff(n) == n > AttemptCap + 1
OverCap(n) == n > AttemptCap

\* The interval fires (lines 128-138): attempts++, the cap check, else a /tasks
\* request goes out.
PollTick(w) ==
    /\ ~crashed
    /\ w.timer
    /\ w.attempts < MaxPolls \/ w.attempts >= AttemptCap
    /\ IF OverCap(w.attempts + 1)
       THEN /\ queue' = UpdateStatus(queue, w.idx, "error", Pct(0))
            /\ ProcessNext(queue', Step(workers, w,
                                       ClearInterval([w EXCEPT !.attempts = w.attempts + 1])))
            /\ UNCHANGED <<isProcessing, processingRef, nextTimers, taps, runs>>
       ELSE /\ Room
            /\ workers' = Step(workers, w, [w EXCEPT !.attempts = w.attempts + 1,
                                                     !.polls = w.polls + 1])
            /\ UNCHANGED <<queue, isProcessing, currentIdx, processingRef, nextTimers,
                           doneTimers, taps, runs, crashed>>

\* The ticks between the ones followed one by one and the cap, each with a
\* request that fails and is ignored (lines 178-180): attempts reaches the cap.
PollTicksIgnored(w) ==
    /\ ~crashed
    /\ w.timer
    /\ w.attempts >= MaxPolls
    /\ w.attempts < AttemptCap
    /\ workers' = Step(workers, w, [w EXCEPT !.attempts = AttemptCap])
    /\ UNCHANGED <<queue, isProcessing, currentIdx, processingRef, nextTimers,
                   doneTimers, taps, runs, crashed>>

\* What a /tasks answer may report of the task.
MayReport(w) == IF w.term = None THEN {"active", "completed", "error"} ELSE {"active", w.term}
Answered(w, st) ==
    [w EXCEPT !.polls = w.polls - 1, !.term = IF st = "active" THEN w.term ELSE st]

\* task.progress || 0 (line 142): a missing progress counts as 0.
Missing == 0 - 1
OrZero(p) == IF p = Missing THEN 0 ELSE p
\* 50 + (task.progress || 0) / 2.5 (line 142).
PollProgressTimes(p) == Pct(50) + ((25 * OrZero(p)) \div 2)
PollProgress(p) == Pct(50) + 2 * OrZero(p)
\* The progress values the server reports in ProgressSpec.
FullProgress == 100
ProgressInputs == (0..FullProgress) \cup {Missing}

\* A /tasks request fails, or its answer does not hold the task: nothing happens.
PollIgnored(w) ==
    /\ ~crashed
    /\ w.pc = "poll"
    /\ w.polls > 0
    /\ workers' = Step(workers, w, [w EXCEPT !.polls = w.polls - 1])
    /\ UNCHANGED <<queue, isProcessing, currentIdx, processingRef, nextTimers,
                   doneTimers, taps, runs, crashed>>

\* A /tasks answer holds the task (lines 141-173), up to the await of the
\* completed branch.
PollAnswer(w, st, p) ==
    LET q1 == UpdateStatus(queue, w.idx, "downloading", PollProgress(p)) IN
    /\ ~crashed
    /\ w.pc = "poll"
    /\ w.polls > 0
    /\ st \in MayReport(w)
    /\ CASE st = "completed" ->
              /\ queue' = q1
              /\ workers' = Step(workers, w, [ClearInterval(Answered(w, st)) EXCEPT
                                                !.tokens = w.tokens + 1])
              /\ UNCHANGED nextTimers
         [] st = "error" ->
              /\ queue' = UpdateStatus(q1, w.idx, "error", Pct(0))
              /\ workers' = Step(workers, w, ClearInterval(Answered(w, st)))
              /\ nextTimers < MaxTimers
              /\ nextTimers' = nextTimers + 1
         [] OTHER ->
              /\ queue' = q1
              /\ workers' = Step(workers, w, Answered(w, st))
              /\ UNCHANGED nextTimers
    /\ UNCHANGED <<isProcessing, currentIdx, processingRef, doneTimers, taps, runs, crashed>>

\* getDownloadUrl of the completed branch resolves (ok) or fails: the item is
\* marked ready either way (lines 150-168).
TokenDone(w, ok) ==
    /\ ~crashed
    /\ w.tokens > 0
    /\ queue' = SetReady(queue, w.idx, ok)
    /\ workers' = Step(workers, w, [w EXCEPT !.tokens = w.tokens - 1])
    /\ UNCHANGED <<isProcessing, currentIdx, processingRef, nextTimers, doneTimers,
                   taps, runs, crashed>>

\* downloadCurrent up to its await (lines 199-207): the rendered current item
\* must be ready; a fresh token is requested.
Tap ==
    /\ ~crashed
    /\ Exists(queue, currentIdx)
    /\ queue[currentIdx + 1].status = "ready"
    /\ Room
    /\ taps' = [taps EXCEPT ![currentIdx] = taps[currentIdx] + 1]
    /\ UNCHANGED <<queue, isProcessing, currentIdx, processingRef, workers, nextTimers,
                   doneTimers, runs, crashed>>

TapFailAdvance(idx) ==
    /\ ~crashed
    /\ taps[idx] > 0
    /\ taps' = [taps EXCEPT ![idx] = taps[idx] - 1]
    /\ nextTimers < MaxTimers
    /\ nextTimers' = nextTimers + 1
    /\ UNCHANGED <<queue, isProcessing, currentIdx, processingRef, workers, doneTimers,
                   runs, crashed>>
\* The token request of a tap fails: the save is abandoned (lines 208-211).
TapFail(idx) ==
    /\ ~crashed
    /\ taps[idx] > 0
    /\ taps' = [taps EXCEPT ![idx] = taps[idx] - 1]
    /\ UNCHANGED <<queue, isProcessing, currentIdx, processingRef, workers, nextTimers,
                   doneTimers, runs, crashed>>

\* The token request of a tap resolves: the file is opened, the item marked
\* completed and processNext scheduled (lines 212-226).
TapSave(idx) ==
    /\ ~crashed
    /\ taps[idx] > 0
    /\ taps' = [taps EXCEPT ![idx] = taps[idx] - 1]
    /\ queue' = SetCompleted(queue, idx)
    /\ nextTimers < MaxTimers
    /\ nextTimers' = nextTimers + 1
    /\ UNCHANGED <<isProcessing, currentIdx, processingRef, workers, doneTimers, runs, crashed>>

\* ================================================================ download URLs
\* Strings are TLA+ strings; a token is kept as the sequence of its characters
\* so that encodeURIComponent can work on each of them.
UrlTaskIds == {"t1", "t2"}
Unreserved == {"a", "b", "c"}
TokenChars == Unreserved \cup {"+", "/", "="}
Tokens     == SeqsUpTo(TokenChars, MaxTokenLen)
\* res.data?.token is undefined.
NoToken    == <<"undefined">>
TokenResponses == Tokens \cup {NoToken}

RECURSIVE JoinChars(_)
JoinChars(s) == IF s = <<>> THEN "" ELSE Head(s) \o JoinChars(Tail(s))

\* encodeURIComponent: unreserved characters stay, the others are escaped.
EncodeChar(c) ==
    CASE c = "+" -> "%2B"
      [] c = "/" -> "%2F"
      [] c = "=" -> "%3D"
      [] OTHER   -> c
RECURSIVE EncodeURIComponent(_)
EncodeURIComponent(k) ==
    IF k = <<>> THEN "" ELSE EncodeChar(Head(k)) \o EncodeURIComponent(Tail(k))

ApiUrl == "/api"
DownloadFile(taskId) == "/download_file/" \o taskId
\* throw new Error('Missing download token')
MissingToken == "Error: Missing download token"

AppGetDownloadUrlRaw(taskId, token) ==
    IF token = NoToken \/ token = <<>> THEN MissingToken
    ELSE "/api" \o DownloadFile(taskId) \o "?token=" \o JoinChars(token)
\* getDownloadUrl of App (part_001:75-80), given the token of the response.
AppGetDownloadUrl(taskId, token) ==
    IF token = NoToken \/ token = <<>> THEN MissingToken
    ELSE "/api" \o DownloadFile(taskId) \o "?token=" \o EncodeURIComponent(token)

\* getDownloadUrl of useMobileQueue (part_007:28-33).
HookGetDownloadUrl(taskId, token) ==
    IF token = NoToken \/ token = <<>> THEN MissingToken
    ELSE ApiUrl \o "/download_file/" \o taskId \o "?token=" \o EncodeURIComponent(token)

UrlInitFor(t, r) ==
    /\ urlTask = t
    /\ urlResp = r
    /\ urlApp = None
    /\ urlHook = None
UrlInit == \E t \in UrlTaskIds, r \in TokenResponses : UrlInitFor(t, r)
UrlIdle == UrlInitFor("t1", NoToken)

\* Both composers are called with the task id and get the response.
ComposeUrls ==
    /\ urlApp = None
    /\ urlApp' = AppGetDownloadUrl(urlTask, urlResp)
    /\ urlHook' = HookGetDownloadUrl(urlTask, urlResp)
    /\ UNCHANGED <<urlTask, urlResp>>

\* ================================================================ specifications
PollIdle  == PollInitFor(TRUE)
DiffIdle  == DiffInitFor(<<>>, <<>>)
\* The subsystems share no state: a step of one leaves the others alone.
PollOnly  == UNCHANGED <<diffVars, queueVars, urlVars, saveVars>>
SaveOnly  == UNCHANGED <<diffVars, queueVars, urlVars>>
DiffOnly  == UNCHANGED <<pollVars, queueVars, urlVars, saveVars>>
QueueOnly == UNCHANGED <<pollVars, diffVars, urlVars, saveVars>>
UrlOnly   == UNCHANGED <<pollVars, diffVars, queueVars, saveVars>>

Init == PollInit /\ DiffIdle /\ QueueInit /\ UrlIdle
Next ==
    \/ \E inst \in {"live", "old"} : Tick(inst) /\ PollOnly
    \/ VisibilityChange /\ PollOnly
    \/ \E snap \in PollSnapshots : FetchOk(snap) /\ SaveOnly
    \/ FetchFail /\ PollOnly
    \/ StaleResolve /\ PollOnly
    \/ Navigate /\ PollOnly
    \/ Commit /\ PollOnly
Spec == Init /\ [][Next]_vars

\* The App poll with the order of its requests followed.
OrderSpecInit ==
    (\E v \in BOOLEAN : PollInitWith(v, FALSE, 0)) /\ DiffIdle /\ QueueInit /\ UrlIdle
OrderSpec == OrderSpecInit /\ [][Next]_vars

DiffSpecInit == PollIdle /\ DiffInit /\ QueueInit /\ UrlIdle
DiffSpecNext == DiffApply /\ DiffOnly
DiffSpec == DiffSpecInit /\ [][DiffSpecNext]_vars

\* The App in a visible document, with a search and its task alone in the
\* snapshots.
SyncSpecNext ==
    \/ \E inst \in {"live", "old"} : Tick(inst) /\ PollOnly
    \/ \E snap \in SyncSnapshots : FetchOk(snap) /\ SaveOnly
    \/ FetchFail /\ PollOnly
    \/ StaleResolve /\ PollOnly
    \/ Navigate /\ PollOnly
    \/ Commit /\ PollOnly
    \/ SearchStart /\ PollOnly
    \/ SearchOk /\ PollOnly
    \/ SearchFail /\ PollOnly
\* The same with a second search after the first.
SearchAgainSpecNext ==
    \/ \E inst \in {"live", "old"} : Tick(inst) /\ PollOnly
    \/ \E snap \in SearchAgainSnapshots : FetchOk(snap) /\ SaveOnly
    \/ FetchFail /\ PollOnly
    \/ StaleResolve /\ PollOnly
    \/ Navigate /\ PollOnly
    \/ Commit /\ PollOnly
    \/ SearchStartWithin(MaxSearchAgain) /\ PollOnly
    \/ SearchOk /\ PollOnly
    \/ SearchFail /\ PollOnly
SearchAgainSpecInit == PollIdle /\ DiffIdle /\ QueueInit /\ UrlIdle
SearchAgainSpec == SearchAgainSpecInit /\ [][SearchAgainSpecNext]_vars

SyncSpecInit == PollIdle /\ DiffIdle /\ QueueInit /\ UrlIdle
SyncSpec == SyncSpecInit /\ [][SyncSpecNext]_vars

\* The App in a visible document with the Downloads view's cancel button.
CancelSpecNext ==
    \/ \E inst \in {"live", "old"} : Tick(inst) /\ PollOnly
    \/ \E snap \in PollSnapshots : FetchOk(snap) /\ SaveOnly
    \/ FetchFail /\ PollOnly
    \/ StaleResolve /\ PollOnly
    \/ Navigate /\ PollOnly
    \/ Commit /\ PollOnly
    \/ \E id \in TaskIds : Cancel(id) /\ PollOnly
    \/ \E id \in TaskIds : CancelOk(id) /\ PollOnly
    \/ \E id \in TaskIds : CancelFail(id) /\ PollOnly
CancelSpecInit == PollIdle /\ DiffIdle /\ QueueInit /\ UrlIdle
CancelSpec == CancelSpecInit /\ [][CancelSpecNext]_vars

\* The App in a visible document, on a desktop or a mobile device, with the
\* token requests of the auto-save.
SaveSpecNext ==
    \/ Tick("live") /\ PollOnly
    \/ \E snap \in PollSnapshots : FetchOk(snap) /\ SaveOnly
    \/ FetchFail /\ PollOnly
    \/ StaleResolve /\ PollOnly
    \/ Commit /\ PollOnly
    \/ \E id \in TaskIds : AutoSaveOk(id) /\ SaveOnly
    \/ \E id \in TaskIds : AutoSaveFail(id) /\ SaveOnly
SaveSpecInit == (\E m \in BOOLEAN : PollInitOn(TRUE, m)) /\ DiffIdle /\ QueueInit /\ UrlIdle
SaveSpec == SaveSpecInit /\ [][SaveSpecNext]_vars

UrlSpecInit == PollIdle /\ DiffIdle /\ QueueInit /\ UrlInit
UrlSpecNext == ComposeUrls /\ UrlOnly
UrlSpec == UrlSpecInit /\ [][UrlSpecNext]_vars

QueueSpecInit == PollIdle /\ DiffIdle /\ QueueInit /\ UrlIdle
QueueSpecNext ==
    \/ \E items \in SeqsUpTo(BOOLEAN, MaxItems) \ {<<>>} : AddToQueue(items) /\ QueueOnly
    \/ StartQueue /\ QueueOnly
    \/ NextTimer /\ QueueOnly
    \/ DoneTimer /\ QueueOnly
    \/ Tap /\ QueueOnly
    \/ \E idx \in Idxs :
        \/ TapFail(idx) /\ QueueOnly
        \/ TapSave(idx) /\ QueueOnly
    \/ \E w \in BagToSet(workers) : ItemBegin(w) /\ QueueOnly
    \/ \E w \in BagToSet(workers) : ItemCheckUrl(w) /\ QueueOnly
    \/ \E w \in BagToSet(workers) : PrepareOk(w) /\ QueueOnly
    \/ \E w \in BagToSet(workers) : PrepareFail(w) /\ QueueOnly
    \/ \E w \in BagToSet(workers) : StartOk(w) /\ QueueOnly
    \/ \E w \in BagToSet(workers) : StartFail(w) /\ QueueOnly
    \/ \E w \in BagToSet(workers) : PollTick(w) /\ QueueOnly
    \/ \E w \in BagToSet(workers) : PollTicksIgnored(w) /\ QueueOnly
    \/ \E w \in BagToSet(workers) : PollIgnored(w) /\ QueueOnly
    \/ \E w \in BagToSet(workers), st \in {"active", "completed", "error"}, p \in ServerProgress :
           PollAnswer(w, st, p) /\ QueueOnly
    \/ \E w \in BagToSet(workers), ok \in BOOLEAN : TokenDone(w, ok) /\ QueueOnly
QueueSpec == QueueSpecInit /\ [][QueueSpecNext]_vars

\* useMobileQueue with one track and every server progress.
ProgressSpecInit == QueueSpecInit
ProgressSpecNext ==
    \/ \E items \in SeqsUpTo(BOOLEAN, MaxProgressItems) \ {<<>>} : AddToQueue(items) /\ QueueOnly
    \/ StartQueue /\ QueueOnly
    \/ NextTimer /\ QueueOnly
    \/ DoneTimer /\ QueueOnly
    \/ Tap /\ QueueOnly
    \/ \E idx \in Idxs :
        \/ TapFail(idx) /\ QueueOnly
        \/ TapSave(idx) /\ QueueOnly
    \/ \E w \in BagToSet(workers) : ItemBegin(w) /\ QueueOnly
    \/ \E w \in BagToSet(workers) : ItemCheckUrl(w) /\ QueueOnly
    \/ \E w \in BagToSet(workers) : PrepareOk(w) /\ QueueOnly
    \/ \E w \in BagToSet(workers) : PrepareFail(w) /\ QueueOnly
    \/ \E w \in BagToSet(workers) : StartOk(w) /\ QueueOnly
    \/ \E w \in BagToSet(workers) : StartFail(w) /\ QueueOnly
    \/ \E w \in BagToSet(workers) : PollTick(w) /\ QueueOnly
    \/ \E w \in BagToSet(workers) : PollTicksIgnored(w) /\ QueueOnly
    \/ \E w \in BagToSet(workers) : PollIgnored(w) /\ QueueOnly
    \/ \E w \in BagToSet(workers), st \in {"active", "completed", "error"}, p \in ProgressInputs :
           PollAnswer(w, st, p) /\ QueueOnly
    \/ \E w \in BagToSet(workers), ok \in BOOLEAN : TokenDone(w, ok) /\ QueueOnly
ProgressSpec == ProgressSpecInit /\ [][ProgressSpecNext]_vars

\* useMobileQueue over two runs of one track each: the second addToQueue comes
\* after the reset of the first run, whose requests may still be in flight.
RerunSpecInit == QueueSpecInit
RerunSpecNext ==
    \/ \E items \in SeqsUpTo(BOOLEAN, MaxRerunItems) \ {<<>>} :
           AddToQueueWithin(items, MaxReruns) /\ QueueOnly
    \/ StartQueue /\ QueueOnly
    \/ NextTimer /\ QueueOnly
    \/ DoneTimer /\ QueueOnly
    \/ Tap /\ QueueOnly
    \/ \E idx \in Idxs :
        \/ TapFail(idx) /\ QueueOnly
        \/ TapSave(idx) /\ QueueOnly
    \/ \E w \in BagToSet(workers) : ItemBegin(w) /\ QueueOnly
    \/ \E w \in BagToSet(workers) : ItemCheckUrl(w) /\ QueueOnly
    \/ \E w \in BagToSet(workers) : PrepareOk(w) /\ QueueOnly
    \/ \E w \in BagToSet(workers) : PrepareFail(w) /\ QueueOnly
    \/ \E w \in BagToSet(workers) : StartOk(w) /\ QueueOnly
    \/ \E w \in BagToSet(workers) : StartFail(w) /\ QueueOnly
    \/ \E w \in BagToSet(workers) : PollTick(w) /\ QueueOnly
    \/ \E w \in BagToSet(workers) : PollTicksIgnored(w) /\ QueueOnly
    \/ \E w \in BagToSet(workers) : PollIgnored(w) /\ QueueOnly
    \/ \E w \in BagToSet(workers), st \in {"active", "completed", "error"}, p \in ServerProgress :
           PollAnswer(w, st, p) /\ QueueOnly
    \/ \E w \in BagToSet(workers), ok \in BOOLEAN : TokenDone(w, ok) /\ QueueOnly
RerunSpec == RerunSpecInit /\ [][RerunSpecNext]_vars

\* ================================================================ properties
\* ---------------------------------------------------------------- App poll (Spec)

\* C1: the completion side effects are dispatched at most once per task id,
\* and an id in the handled-completions set is never removed from it, also
\* when the task left `completed` or the snapshot in between.
C1_AtMostOncePerId ==
    /\ [](\A i \in TaskIds : dispatched[i] <= 1)
    /\ [][handledCompletions \subseteq handledCompletions']_vars
\* A dispatched id has left `completed` or the list and was reported completed
\* again by a processed snapshot.
C1_ReportedAgain ==
    \E i \in again : dispatched[i] = 1 /\ i \in handledCompletions

\* C2: a task not completed in the first successful snapshot and reported
\* completed by a later snapshot the live scheduler processed has had its side
\* effects dispatched exactly once, however the fetches overlap.
C2_ExactlyOnce == \A i \in reported : dispatched[i] = 1

\* C3: a task completed in the first successfully fetched snapshot is admitted
\* into the handled set without a dispatch and no later snapshot dispatches it.
C3_FirstSnapshotSilent ==
    \A i \in silent : dispatched[i] = 0 /\ i \in handledCompletions
\* The scheduler has left the first load and the snapshot applied last reports
\* as completed both a silently admitted id and an id dispatched since.
C3_SilentReportedLater ==
    /\ ~isFirstLoad
    /\ ~effFirstLoad
    /\ \E i \in silent, j \in TaskIds \ silent :
           /\ {i, j} \subseteq CompletedIds(allTasks)
           /\ dispatched[j] = 1

\* ---------------------------------------------------------------- Diffing Store (DiffSpec)
\* Same length and the same (id, status, progress, message) at every position.
SameTuples(a, b) ==
    /\ Len(a) = Len(b)
    /\ \A i \in 1..Len(a) :
           <<a[i].id, a[i].status, a[i].progress, a[i].message>>
             = <<b[i].id, b[i].status, b[i].progress, b[i].message>>

\* C4: the Diffing Store keeps the previous list if and only if both lists
\* have the same length and agree positionally on (id, status, progress,
\* message); otherwise it returns the next snapshot.
C4_KeepsPrevIffSameTuples ==
    dOut.ref # None =>
        /\ (dOut = dPrev) <=> SameTuples(dPrev.items, dNext.items)
        /\ (dOut = dNext) <=> ~SameTuples(dPrev.items, dNext.items)
\* The previous list was kept although the snapshot differs from it (in
\* `playlist` only).
C4_KeptDespitePlaylist ==
    /\ dOut = dPrev
    /\ dPrev.items # dNext.items
    /\ Len(dPrev.items) = MaxDiffLen

\* ---------------------------------------------------------------- useMobileQueue (QueueSpec)
Statuses == {"pending", "preparing", "downloading", "ready", "completed", "error"}
StatusAt(q, k) == q[k].status
\* The positions (1-based) both queues hold: the items a step may have changed.
Kept == 1..Min(Len(queue), Len(queue'))
ItemsInFlight(q) == {k \in 1..Len(q) : q[k].status \in {"preparing", "downloading", "ready"}}

\* C5: at most one queue item is in flight (preparing, downloading or ready)
\* at any moment, under every interleaving of timers, responses and taps.
C5_OneInFlight == Cardinality(ItemsInFlight(queue)) <= 1

\* C6: items are started in input order: item j leaves `pending` only after
\* every item before it has reached `completed` or `error`.
C6_StartedInOrder ==
    [][\A j \in Kept :
          (StatusAt(queue, j) = "pending" /\ StatusAt(queue', j) # "pending")
              => \A i \in 1..(j - 1) : StatusAt(queue, i) \in {"completed", "error"}]_vars

\* C7: an item reaching `error` never halts the queue.  Every step that puts
\* an item into `error` while an item is pending either schedules processNext
\* or has run it and started the first pending item; and a scheduled
\* processNext that fires starts the first pending item.
StartedNow(q) ==
    LET idx == FirstPending(q) - 1
        w == Spawn(idx, q[idx + 1].url)
    IN CopiesIn(w, workers') = CopiesIn(w, workers) + 1 /\ currentIdx' = idx
C7_ErrorNeverHalts ==
    [][/\ (\E k \in Kept : StatusAt(queue, k) \in Statuses \ {"error"}
                           /\ StatusAt(queue', k) = "error"
                           /\ FirstPending(queue') # 0)
           => (nextTimers' = nextTimers + 1 \/ StartedNow(queue'))
       /\ (nextTimers' < nextTimers /\ FirstPending(queue) # 0) => StartedNow(queue)]_vars
\* [A(valid), B(invalid URL), C(valid)]: A saved by a tap, B in error, C ready.
C7_ScenarioReached ==
    /\ Len(queue) = 3
    /\ <<queue[1].url, queue[2].url, queue[3].url>> = <<TRUE, FALSE, TRUE>>
    /\ <<queue[1].status, queue[2].status, queue[3].status>> = <<"completed", "error", "ready">>

\* C8: an item whose polling has not reported `completed` goes to `error` once
\* the 300 attempts are used up: the tick after the 300th marks the item
\* `error` and stops the timer, and no timer stays armed beyond the cap.
C8_ErrorAtCap ==
    /\ [](\A w \in BagToSet(workers) : w.timer => w.attempts <= AttemptCap)
    /\ [][\A w \in BagToSet(workers) :
             (w.attempts >= AttemptCap /\ PollTick(w) /\ Exists(queue, w.idx))
                 => StatusAt(queue', w.idx + 1) = "error"]_vars
\* An invocation has gone beyond the cap without a completed answer and its
\* item is in error.
C8_CapHit ==
    \E w \in BagToSet(workers) :
        /\ w.attempts > AttemptCap
        /\ w.term # "completed"
        /\ Exists(queue, w.idx)
        /\ queue[w.idx + 1].status = "error"

\* C9: an item is never auto-downloaded: it becomes `completed` only from
\* `ready`, by the save of a tap on the current item, and without that it
\* stays `ready`.
C9_ReadyUntilTapped ==
    [][\A k \in Kept :
          /\ (StatusAt(queue, k) = "ready" /\ StatusAt(queue', k) # "ready")
                => (StatusAt(queue', k) = "completed" /\ taps'[k - 1] < taps[k - 1])
          /\ (StatusAt(queue, k) \in Statuses \ {"completed"} /\ StatusAt(queue', k) = "completed")
                => (StatusAt(queue, k) = "ready" /\ taps'[k - 1] < taps[k - 1])]_vars

\* C10: every status change of an item follows pending -> preparing ->
\* downloading -> ready -> completed, with error entered only from preparing
\* or downloading; no item moves backwards.
StatusEdges ==
    { <<"pending", "preparing">>, <<"preparing", "downloading">>,
      <<"downloading", "ready">>, <<"ready", "completed">>,
      <<"preparing", "error">>, <<"downloading", "error">> }
C10_StatusEdges ==
    [][\A k \in Kept :
          (StatusAt(queue, k) \in Statuses /\ StatusAt(queue', k) # StatusAt(queue, k))
              => <<StatusAt(queue, k), StatusAt(queue', k)>> \in StatusEdges]_vars

\* C11: while isProcessing is true, currentIdx designates an existing queue
\* item and every item in flight (preparing, downloading or ready) is the item
\* at currentIdx.
C11_CurrentIsTheOneInFlight ==
    isProcessing =>
        /\ currentIdx < Len(queue)
        /\ \A k \in ItemsInFlight(queue) : k = currentIdx + 1

\* C12: the interval of the running scheduler is armed only while the document
\* is visible, a torn-down scheduler has no interval armed, and no step starts
\* a /tasks request while the document is hidden.
C12_PollsOnlyWhileVisible ==
    /\ []((interval => visible) /\ ~oldInterval)
    /\ [][InFlight' > InFlight => visible']_vars
\* The page was hidden after the scheduler had polled: nothing is armed.
C12_HiddenAfterPolling == ~visible /\ ~interval /\ ~isFirstLoad

\* C13: a hidden-to-visible transition starts exactly one request in the very
\* step of the transition and leaves the interval armed.
C13_ResumeFetchesOnce ==
    [][(~visible /\ visible') =>
          /\ liveFetches' = liveFetches + 1
          /\ staleFetches' = staleFetches
          /\ interval']_vars
\* The page became visible again and the fetch of that transition is in flight.
C13_Resumed == visible /\ interval /\ resumeFetch = "live" /\ liveFetches > 0

\* C16: a torn-down scheduler has neither an interval nor a listener left, and
\* the requests of torn-down schedulers grow only in the teardown itself, by
\* the requests that were in flight then.
C16_TeardownStopsFetching ==
    /\ [](~oldInterval /\ ~oldListener)
    /\ [][staleFetches' > staleFetches =>
             /\ closureVars' # closureVars
             /\ staleFetches' = staleFetches + liveFetches]_vars
\* A scheduler was torn down with a request in flight, the page was hidden and
\* shown again, and its successor polls.
C16_TornDown ==
    /\ ~effFirstLoad
    /\ staleFetches > 0
    /\ resumeFetch = "live"
    /\ interval

\* C14: while the fetch started by the latest hidden-to-visible transition is
\* in flight the syncing indicator is set, and the step in which that fetch
\* resolves clears it.
C14_SyncingUntilResumeFetchResolves ==
    /\ [](resumeFetch # "none" => isSyncing)
    /\ [][(resumeFetch # "none" /\ resumeFetch' = "none") => ~isSyncing']_vars

\* C15: the step in which a request of a torn-down scheduler resolves writes
\* no state: task list, handled set, first-load flag, active playlist, loading,
\* error and the syncing flag all stay as they are.
C15_StaleResponseWritesNothing ==
    [][staleFetches' < staleFetches =>
          UNCHANGED <<allTasks, handledCompletions, isFirstLoad, activePlaylist,
                      isLoading, loadingMessage, error, isSyncing>>]_vars

\* C17: a failed /tasks request of the running scheduler changes none of task
\* list, handled set, first-load flag, active task id, loading and error state,
\* raises no toast (completion or error), and leaves the interval as it was.
C17_FailedFetchSwallowed ==
    [][FetchFail =>
          UNCHANGED <<allTasks, handledCompletions, isFirstLoad, activeTaskId, isLoading,
                      loadingMessage, error, dispatched, surfaced, interval>>]_vars
\* The first request failed: nothing in flight, still first load, interval
\* armed for the next tick.
C17_FailedFirstFetch == isFirstLoad /\ interval /\ liveFetches = 0 /\ InFlight < MaxInFlight

\* C18: the error of an active task is surfaced (inline error and toast) at
\* most once, however many snapshots report the task as error.
C18_ErrorSurfacedOnce == \A i \in TaskIds : surfaced[i] <= 1

\* C19: for one active task id the ready projection (playlist copied, view
\* switched to preview, loading cleared) fires at most once.
C19_ProjectedOnce == \A i \in TaskIds : projected[i] <= 1

C30_ListAgreesWithSnapshot ==
    [][\A snap \in PollSnapshots :
         FetchOk(snap) =>
             /\ SameTuples(allTasks', snap)
             /\ \A k \in 1..Len(allTasks') :
                    /\ allTasks'[k].status # "cancelled"
                    /\ allTasks'[k].message \notin {"Cancelling...", "Cancel failed"}]_vars
\* A task was cancelled optimistically and, with the cancel call still in
\* flight, a snapshot has put the server's status back.
C30_CancelOverwritten ==
    \E k \in 1..Len(allTasks) :
        /\ cancels[allTasks[k].id] > 0
        /\ allTasks[k].status = "downloading"
        /\ allTasks[k].message = ""

\* The snapshot reports task id with status st.
Reports(snap, id, st) == \E k \in 1..Len(snap) : snap[k].id = id /\ snap[k].status = st

\* C32: a poll changes the active task id only by clearing it, and only with
\* a snapshot that reports the active task as error; a snapshot without the
\* active task or with it completed or cancelled, and a failed or discarded
\* fetch, leave the active task id as it is.
C32_ClearedOnlyOnError ==
    [][/\ \A snap \in SyncSnapshots \cup SearchAgainSnapshots :
            (FetchOk(snap) /\ activeTaskId' # activeTaskId) =>
                /\ activeTaskId' = NoTask
                /\ Reports(snap, activeTaskId, "error")
       /\ (FetchFail \/ StaleResolve) => activeTaskId' = activeTaskId]_vars


\* C33: while the view is preview and the snapshot reports the active task
\* ready with a playlist, the held playlist object is replaced only if the
\* reported playlist differs structurally from the held one.
C33_KeptWhenStructurallyEqual ==
    [][\A snap \in SyncSnapshots :
         (/\ FetchOk(snap)
          /\ view = "preview"
          /\ Reports(snap, activeTaskId, "ready")) =>
             LET t == snap[FindActive(snap, activeTaskId)] IN
             (t.playlist # None /\ playlistGen' # playlistGen) => t.playlist # activePlaylist]_vars

\* C35: the syncing indicator is set only while a fetch is in flight, and
\* every fetch that resolves (with a snapshot, with a failure, or for a
\* torn-down scheduler) leaves it cleared: once the fetches in flight have
\* resolved it is false, whatever happened to the page or the scheduler.
C35_SyncingCleared ==
    /\ [](isSyncing => InFlight > 0)
    /\ [][InFlight' < InFlight => ~isSyncing']_vars
\* The indicator is set, the page is hidden again and the fetch in flight
\* belongs to a torn-down scheduler.
C35_SyncingWhileHiddenAndTornDown ==
    /\ isSyncing
    /\ ~visible
    /\ liveFetches = 0
    /\ staleFetches > 0

\* Repeating poll timers armed: that of the running effect instance and that
\* of torn-down instances.
ArmedTimers == (IF interval THEN 1 ELSE 0) + (IF oldInterval THEN 1 ELSE 0)

\* C36: at most one repeating poll timer is armed at any time; no timer of a
\* torn-down scheduler stays armed, and a step that arms the timer of the
\* running scheduler starts from no timer armed at all.
C36_OneTimerArmed ==
    /\ [](ArmedTimers <= 1 /\ ~oldInterval)
    /\ [][(interval' /\ ~interval) => (ArmedTimers = 0 /\ ArmedTimers' = 1)]_vars
    /\ [][(Commit /\ interval) => (ArmedTimers' <= 1 /\ ~oldInterval')]_vars
\* The scheduler was restarted while its timer was armed and has been hidden
\* and shown again since: one timer is armed and an old request is in flight.
C36_RestartedAndResumed ==
    /\ interval
    /\ staleFetches > 0
    /\ resumeFetch = "live"

\* C37: the task list is never replaced by the response of a request that was
\* issued before the request whose response was applied most recently.
C37_AppliedInRequestOrder ==
    [][\A snap \in PollSnapshots :
         (FetchOk(snap) /\ allTasks' # allTasks) => overtaken' >= overtaken]_vars

\* ---------------------------------------------------------------- useMobileQueue, second part

\* C21: a tap whose token request fails changes nothing but the request count:
\* queue (the item stays as it is, nothing is marked completed), currentIdx,
\* the scheduled processNext calls and the running items are untouched; and a
\* tap issues a token request only when the current item is ready.
C21_FailedTapAbortsOnlyThatAttempt ==
    [][/\ \A idx \in Idxs :
            TapFail(idx) => UNCHANGED <<queue, currentIdx, nextTimers, doneTimers, workers,
                                        isProcessing, processingRef>>
       /\ (\E i \in Idxs : taps'[i] > taps[i]) =>
            /\ Exists(queue, currentIdx)
            /\ queue[currentIdx + 1].status = "ready"
            /\ UNCHANGED <<queue, currentIdx, nextTimers, doneTimers, workers>>]_vars
\* The current item is ready and a tap's token request is in flight: it may
\* fail, and the item is there for the next tap.
C21_TapAwaitsToken ==
    /\ Exists(queue, currentIdx)
    /\ queue[currentIdx + 1].status = "ready"
    /\ taps[currentIdx] > 0
    /\ nextTimers = 0

\* The processItem invocations of item idx that stand at pc, and the /tasks
\* requests and poll timers of item idx.
Measure(w, what, idx) ==
    IF w.idx # idx THEN 0
    ELSE CASE what = "polls"  -> w.polls
           [] what = "timers" -> IF w.timer THEN 1 ELSE 0
           [] what = "tokens" -> w.tokens
           [] what = "attempts" -> IF w.timer THEN w.attempts ELSE 0
           [] OTHER           -> IF w.pc = what THEN 1 ELSE 0
RECURSIVE SumOver(_, _, _, _)
SumOver(S, b, what, idx) ==
    IF S = {} THEN 0
    ELSE LET w == CHOOSE x \in S : TRUE
         IN b[w] * Measure(w, what, idx) + SumOver(S \ {w}, b, what, idx)
AtPc(b, idx, pc) == SumOver(BagToSet(b), b, pc, idx)
PollsOf(b, idx)  == SumOver(BagToSet(b), b, "polls", idx)
TimersOf(b, idx) == SumOver(BagToSet(b), b, "timers", idx)
TokensOf(b, idx) == SumOver(BagToSet(b), b, "tokens", idx)
AttemptsOf(b, idx) == SumOver(BagToSet(b), b, "attempts", idx)

\* C23: for each item, /start is requested only in the step in which /prepare
\* resolves with a task id, which the item carries from then on; the poll
\* interval is armed only in the step in which /start resolves; a /tasks
\* request goes out only from an armed interval; a failed /prepare or /start
\* requests nothing further and arms nothing.
C23_StepsInSequence ==
    [][/\ \A idx \in Idxs :
            /\ AtPc(workers', idx, "start") > AtPc(workers, idx, "start") =>
                 /\ AtPc(workers', idx, "prepare") < AtPc(workers, idx, "prepare")
                 /\ Exists(queue', idx) => queue'[idx + 1].id = "task"
            /\ TimersOf(workers', idx) > TimersOf(workers, idx) =>
                 AtPc(workers', idx, "start") < AtPc(workers, idx, "start")
            /\ PollsOf(workers', idx) > PollsOf(workers, idx) =>
                 /\ TimersOf(workers, idx) > 0
                 /\ AtPc(workers, idx, "poll") > 0
       /\ \A w \in BagToSet(workers) :
            (PrepareFail(w) \/ StartFail(w)) =>
                 /\ AtPc(workers', w.idx, "start") <= AtPc(workers, w.idx, "start")
                 /\ TimersOf(workers', w.idx) = TimersOf(workers, w.idx)
                 /\ PollsOf(workers', w.idx) = PollsOf(workers, w.idx)]_vars
\* An item went through prepare and start and its first /tasks request is out.
C23_Polling ==
    \E w \in BagToSet(workers) :
        /\ w.pc = "poll" /\ w.timer /\ w.polls = 1 /\ w.attempts = 1
        /\ Exists(queue, w.idx)
        /\ queue[w.idx + 1].status = "downloading"
        /\ queue[w.idx + 1].id = "task"

\* C24: an armed poll timer belongs to an item whose task the server has not
\* yet reported completed or failed and has ticked at most AttemptCap times;
\* every tick that sends a /tasks request counts one attempt more, so the cap
\* is reached after finitely many ticks whatever the requests answer; and a
\* /tasks request is sent for an item only while a timer of it is armed.
C24_PollLoopBounded ==
    /\ [](\A w \in BagToSet(workers) :
            w.timer => (w.pc = "poll" /\ w.attempts <= AttemptCap /\ w.term = None))
    /\ [][\A idx \in Idxs :
            PollsOf(workers', idx) > PollsOf(workers, idx) =>
                /\ TimersOf(workers, idx) > 0
                /\ AttemptsOf(workers', idx) > AttemptsOf(workers, idx)]_vars
\* The server reported the task completed: the timer is cancelled while an
\* earlier /tasks request of the item is still unanswered.
C24_StoppedOnCompleted ==
    \E w \in BagToSet(workers) :
        w.pc = "poll" /\ ~w.timer /\ w.term = "completed" /\ w.polls > 0

\* Something is left that can drive the run on: a processItem invocation, a
\* scheduled processNext or "All done" callback, a tap awaiting its token, or
\* a ready current item the user can tap.
CanGoOn ==
    \/ workers # EmptyBag
    \/ nextTimers > 0
    \/ doneTimers > 0
    \/ \E i \in Idxs : taps[i] > 0
    \/ Exists(queue, currentIdx) /\ queue[currentIdx + 1].status = "ready"

\* C25: every run started by addToQueue reaches the reset of processNext
\* (isProcessing false, guard flag released, queue emptied); so a run in
\* progress is never in a state where nothing is left to drive it there.
C25_RunReachesReset == (processingRef /\ ~crashed) => CanGoOn

C27_ServerIdBeforeStart ==
    /\ [](\A k \in 1..Len(queue) :
            queue[k].status \in {"downloading", "ready", "completed"} => queue[k].id = "task")
    /\ [][/\ \A idx \in Idxs :
               AtPc(workers', idx, "start") > AtPc(workers, idx, "start") =>
                   (Exists(queue', idx) /\ queue'[idx + 1].id = "task")
          /\ (\E i \in Idxs : taps'[i] > taps[i]) => queue[currentIdx + 1].id = "task"]_vars


\* C28: the answer that reports the task completed requests a token and
\* neither marks the item error nor schedules processNext; when that token
\* request resolves or fails, the item becomes ready, with a stored URL exactly
\* when the request succeeded, the other items stay as they are, and the queue
\* does not advance (no processNext scheduled, no item started, currentIdx kept).
C28_ReadyWithOrWithoutUrl ==
    [][/\ \A idx \in Idxs :
            TokensOf(workers', idx) > TokensOf(workers, idx) =>
                /\ nextTimers' = nextTimers
                /\ Exists(queue', idx) => queue'[idx + 1].status = "downloading"
       /\ \A w \in BagToSet(workers), ok \in BOOLEAN :
            (TokenDone(w, ok) /\ Exists(queue, w.idx)) =>
                /\ queue'[w.idx + 1].status = "ready"
                /\ queue'[w.idx + 1].hasUrl = ok
                /\ \A k \in Kept : k # w.idx + 1 => queue'[k] = queue[k]
                /\ UNCHANGED <<currentIdx, nextTimers, doneTimers, isProcessing, processingRef>>
                /\ \A i \in Idxs : AtPc(workers', i, "scheduled") = AtPc(workers, i, "scheduled")]_vars
\* The token request of the completed branch failed: the item is ready without
\* a stored URL and no processNext is scheduled.
C28_ReadyNoUrl ==
    \E k \in 1..Len(queue) :
        /\ queue[k].status = "ready"
        /\ ~queue[k].hasUrl
        /\ nextTimers = 0
        /\ doneTimers = 0

\* C29: while the guard flag is set, the delay before the reset included, no
\* addToQueue call takes effect: the queue keeps its tracks, currentIdx moves
\* only by processNext, isProcessing stays set until the reset; and startQueue
\* starts the driving loop only from a clear guard flag.
C29_AddIgnoredWhileRunning ==
    [][/\ processingRef =>
            /\ runs' = runs
            /\ \A items \in SeqsUpTo(BOOLEAN, MaxRerunItems) \ {<<>>} :
                   ~AddToQueueWithin(items, MaxReruns)
            /\ processingRef' =>
                   /\ isProcessing' = isProcessing
                   /\ Len(queue') >= Len(queue)
                   /\ \A k \in Kept : queue'[k].url = queue[k].url
       /\ StartQueue => (~processingRef /\ processingRef')]_vars
\* The run waits for its reset with the guard flag set, and the user could
\* hand over another list.
C29_RunningBeforeReset ==
    /\ processingRef
    /\ doneTimers > 0
    /\ Len(queue) > 0
    /\ runs < MaxReruns
    /\ ~crashed

\* C38: when processNext finds no pending item and schedules the "All done"
\* callback, and when that callback clears the queue, every item is completed
\* or error.
C38_AllOverWhenDone ==
    [][/\ doneTimers' > doneTimers =>
            \A k \in 1..Len(queue') : queue'[k].status \in {"completed", "error"}
       /\ doneTimers' < doneTimers =>
            \A k \in 1..Len(queue) : queue[k].status \in {"completed", "error"}]_vars

\* C39: for each item at most one /prepare and at most one /start request is
\* ever made within a run: none is in flight twice, /prepare is requested only
\* for an item that has no server id yet, and /start only while no other
\* invocation of the item has got as far as /start or the polling.
C39_ProcessedOnce ==
    /\ [](\A idx \in Idxs : AtPc(workers, idx, "prepare") <= 1 /\ AtPc(workers, idx, "start") <= 1)
    /\ [][\A idx \in Idxs :
            /\ AtPc(workers', idx, "prepare") > AtPc(workers, idx, "prepare") =>
                   /\ AtPc(workers, idx, "prepare") = 0
                   /\ Exists(queue, idx) => queue[idx + 1].id = "temp"
            /\ AtPc(workers', idx, "start") > AtPc(workers, idx, "start") =>
                   /\ AtPc(workers, idx, "start") = 0
                   /\ AtPc(workers, idx, "poll") = 0]_vars

\* ---------------------------------------------------------------- progress mapping (ProgressSpec)

\* C34: a /tasks answer with server progress p in 0..100 (a missing p counting
\* as 0) sets the item's progress to 50 + p / 2.5, which lies in 50..90 and is
\* not below the value for any smaller p; a downloading item shows 50..90, and
\* an item shows 100 only in ready or completed.
C34_ProgressMapping ==
    /\ [](\A k \in 1..Len(queue) :
            /\ queue[k].status = "downloading" =>
                   (Pct(50) <= queue[k].progress /\ queue[k].progress <= Pct(90))
            /\ queue[k].progress = Pct(100) => queue[k].status \in {"ready", "completed"})
    /\ [][\A w \in BagToSet(workers), p \in ProgressInputs :
            (PollAnswer(w, "active", p) /\ Exists(queue, w.idx)) =>
                LET shown == queue'[w.idx + 1].progress IN
                /\ 5 * (shown - Pct(50)) = Pct(2) * OrZero(p)
                /\ Pct(50) <= shown /\ shown <= Pct(90)
                /\ \A q \in 0..OrZero(p) : PollProgress(q) <= shown]_vars
\* An item is downloading at 50.4 percent: the server reported progress 1.
C34_FractionShown ==
    \E k \in 1..Len(queue) :
        /\ queue[k].status = "downloading"
        /\ queue[k].progress = Pct(50) + 2

\* ---------------------------------------------------------------- auto-save (SaveSpec)

\* C31: per task id at most one download-token request is ever made for the
\* auto-save, on a non-mobile device exactly one per dispatched completion and
\* on a mobile device none; a save is triggered only by a token request that
\* succeeded and a toast only by one that failed, and a failed request is not
\* followed by another one.
C31_AutoSaveOnceOffMobile ==
    /\ [](\A i \in TaskIds :
            /\ autoAsked[i] <= 1
            /\ autoAsked[i] = IF mobile THEN 0 ELSE dispatched[i]
            /\ autoTokens[i] + autoSaves[i] + autoToasts[i] = autoAsked[i])
    /\ [][\A i \in TaskIds : autoToasts[i] > 0 => autoAsked'[i] = autoAsked[i]]_vars
\* The auto-save of a task failed on a desktop, and the task, gone from the
\* list or no longer completed in between, has been reported completed again.
C31_FailedAndReportedAgain ==
    \E i \in TaskIds :
        /\ ~mobile
        /\ autoToasts[i] = 1
        /\ i \in again


\* ---------------------------------------------------------------- download URLs (UrlSpec)
HasToken == urlResp # NoToken /\ urlResp # <<>>

\* C22: with a non-empty token both composers return the same URL,
\* /api/download_file/<t>?token= followed by the token percent-encoded, which
\* is the token itself when all its characters are unreserved; with no token
\* both fail with the missing-token error and give no URL.
C22_SameEncodedUrl ==
    urlApp # None =>
        /\ urlApp = urlHook
        /\ HasToken =>
             /\ urlApp # MissingToken
             /\ (\A n \in 1..Len(urlResp) : urlResp[n] \in Unreserved) =>
                   urlApp = "/api/download_file/" \o urlTask \o "?token=" \o JoinChars(urlResp)
             /\ (\E n \in 1..Len(urlResp) : urlResp[n] \notin Unreserved) =>
                   urlApp # "/api/download_file/" \o urlTask \o "?token=" \o JoinChars(urlResp)
        /\ ~HasToken => urlApp = MissingToken
\* Task t1 with the token abc.
C22_T1Abc ==
    /\ urlTask = "t1"
    /\ urlResp = <<"a", "b", "c">>
    /\ urlApp = "/api/download_file/t1?token=abc"
    /\ urlHook = "/api/download_file/t1?token=abc"
\* C22 as stated: for every non-empty token k the URL is
\* /api/download_file/<t>?token=<k>, k taken as it is.
C22_LiteralUrl ==
    urlApp # None =>
        /\ HasToken =>
             /\ urlApp = "/api/download_file/" \o urlTask \o "?token=" \o JoinChars(urlResp)
             /\ urlHook = urlApp
        /\ ~HasToken => urlApp = MissingToken /\ urlHook = MissingToken

====
